---- MODULE Spec2Model ----
(***************************************************************************)
(* Model of naox: the service cache (use_service), the Application run     *)
(* sequences (naox.Application.run and core.application.Application.run),  *)
(* the Behavior lifecycle (activate / deactivate) and the touch            *)
(* subscription and blocking wait (on_body_touched / await_touch).         *)
(***************************************************************************)
EXTENDS Integers, Sequences, FiniteSets, TLC

\* ---------------------------------------------------------------- bounds
\* session.service calls per service name
MaxAsk == 2
\* on_activate / on_deactivate invocations counted per behavior
MaxHooks == 2
\* touch updates in one delivered batch (user callbacks)
MaxBatch == 3
\* touch updates in one delivered batch (blocking waits)
MaxWaitBatch == 2
\* subscriptions user code creates through on_body_touched
MaxSubs == 1
MaxMultiSubs == 2

\* ------------------------------------------------------------- constants
HEAD_FRONT_TOUCH == "Head/Touch/Front"

\* Python's None where a string is expected (body_part, touched_part[0]).
None == "None"

\* The service names Behavior.__init__ resolves.
Names == {"ALMemory", "ALTextToSpeech", "ALLandMarkDetection"}

\* A handle returned by session.service(name): every call of the session
\* yields a new proxy object, told apart by its serial number.
Handle(n, k) == [name |-> n, serial |-> k]

\* What dict.get(service_name, None) yields for an absent key.
NoService == [name |-> None, serial |-> 0]

Behaviors == {"b1", "b2"}
Apps == {"naox", "core"}
Threads == {"t1", "t2"}

\* Part identifiers the touch sensor bus delivers.
Parts == {HEAD_FRONT_TOUCH, "LArm", "RArm"}

\* Values of the body_part argument: None, the empty string, a part name.
Filters == {None, ""} \cup Parts

\* A touch update is (part identifier, flag); the extra data is never read.

VARIABLES
    \* Application.services and the session's call counter (per name)
    services, asked,
    \* the last use_service call (name, outcome, value returned, the cache and
    \* the session's counter before it), the first handle any call returned
    \* for each name, the calls made and the session calls that answered
    lastUse, firstRet, nCalls, fetched,
    \* use_service calls in progress, per calling thread: position, the name
    \* asked for, the local variable service, whether the call began with the
    \* name cached and no other call for it in progress, and what the
    \* thread's last completed call returned
    upc, uname, ulocal, ulater, uheld,
    \* Behavior instances: constructed, _active, hook invocation counts
    constructed, active, nActivate, nDeactivate,
    \* per behavior, the last two lifecycle calls with the state before each,
    \* and the hooks invoked so far, in order
    lastOps, hookLog,
    \* per behavior, the hooks now executing (innermost last) and the hook
    \* whose exception ended the last call ("none" after a normal return)
    hstack, hraised,
    \* the Application class whose run this process called, and run's position,
    \* argument, current_behavior, and what the run call found and did before
    \* entering the event loop
    app, rpc, runArg, current_behavior, runSnap,
    \* Application.session per Application class: the serial number of the
    \* session it holds, 0 while it holds none
    session,
    \* Behavior.touch_subscribers (declared at class scope)
    touch_subscribers,
    \* the signal connections made by on_body_touched, in creation order
    subs,
    \* the event-delivery thread: position, the batch being delivered and,
    \* per connection, the callback invocations it caused
    epc, lastBatch, lastCalls,
    \* await_touch per calling thread: position, arguments, the Event,
    \* touched_part[0], the connection it created, how it ended
    wpc, wfilter, wowner, touch_event, touched_part, wsub, wresult,
    \* truthy parts delivered since the wait's subscription was connected,
    \* and whether a batch was delivered after the wait call ended
    wseen, wlate,
    \* per wait, the first part its internal callback accepted and whether the
    \* callback was invoked at all; the wait that blocks the event-delivery
    \* thread, None while that thread is free
    wfirst, wpassed, eblocked

cacheVars == <<services, asked, lastUse, firstRet, nCalls, fetched,
               upc, uname, ulocal, ulater, uheld>>
lifeVars == <<constructed, active, nActivate, nDeactivate, lastOps, hookLog,
              hstack, hraised>>
runVars == <<app, rpc, runArg, current_behavior, runSnap, session>>
touchVars == <<touch_subscribers, subs, epc, lastBatch, lastCalls>>
waitVars == <<wpc, wfilter, wowner, touch_event, touched_part, wsub, wresult,
              wseen, wlate, wfirst, wpassed, eblocked>>
vars == <<cacheVars, lifeVars, runVars, touchVars, waitVars>>

\* ----------------------------------------------------------- use_service
\* line 24: behavior.application.services.get(service_name, None)
CacheGet(svcs, n) == svcs[n]

\* faulty variant: the session is asked on every call
CacheMiss_Always(svcs, n) == TRUE

\* line 25: the cached entry is used unless it is None
CacheMiss(svcs, n) == CacheGet(svcs, n) = NoService

\* lines 24-28 when the session answers with handle h: the value returned
UseServiceRet(svcs, n, h) == IF CacheMiss(svcs, n) THEN h ELSE CacheGet(svcs, n)

\* lines 24-28 when the session answers with handle h: the cache afterwards
UseServiceCache(svcs, n, h) ==
    IF CacheMiss(svcs, n) THEN [svcs EXCEPT ![n] = h] ELSE svcs

\* lines 24-28: the session's call counter afterwards
UseServiceAsked(svcs, ask, n) ==
    IF CacheMiss(svcs, n) THEN [ask EXCEPT ![n] = @ + 1] ELSE ask

\* the handle the session's next call for n yields
NextHandle(ask, n) == Handle(n, ask[n] + 1)

\* One use_service call on the cache state c (the fields of CacheState), the
\* session answering (lines 24-28).
UseStep(c, n) ==
    LET h == NextHandle(c.asked, n)
        r == UseServiceRet(c.services, n, h)
    IN [services |-> UseServiceCache(c.services, n, h),
        asked |-> UseServiceAsked(c.services, c.asked, n),
        lastUse |-> [name |-> n,
                     outcome |-> IF CacheMiss(c.services, n)
                                 THEN "fetched" ELSE "hit",
                     ret |-> r,
                     cache0 |-> c.services,
                     asked0 |-> c.asked],
        firstRet |-> IF c.firstRet[n] = NoService
                     THEN [c.firstRet EXCEPT ![n] = r] ELSE c.firstRet,
        nCalls |-> [c.nCalls EXCEPT ![n] = @ + 1],
        fetched |-> IF CacheMiss(c.services, n)
                    THEN [c.fetched EXCEPT ![n] = @ + 1] ELSE c.fetched]

CacheState ==
    [services |-> services, asked |-> asked, lastUse |-> lastUse,
     firstRet |-> firstRet, nCalls |-> nCalls, fetched |-> fetched]

SetCache(c) ==
    /\ services' = c.services
    /\ asked' = c.asked
    /\ lastUse' = c.lastUse
    /\ firstRet' = c.firstRet
    /\ nCalls' = c.nCalls
    /\ fetched' = c.fetched
    /\ UNCHANGED <<upc, uname, ulocal, ulater, uheld>>

\* a call for n stays within the bounds of the model
CanUse(c, n) ==
    /\ c.nCalls[n] < MaxAsk + 1
    /\ CacheMiss(c.services, n) => c.asked[n] < MaxAsk

\* use_service(behavior, n) called from user code, the session answering
UseService(n) ==
    /\ CanUse(CacheState, n)
    /\ SetCache(UseStep(CacheState, n))
    /\ UNCHANGED <<lifeVars, runVars, touchVars, waitVars>>

\* faulty variant: the cache entry is written although the lookup failed
UseServiceRaise_Caches(n) ==
    /\ CanUse(CacheState, n)
    /\ CacheMiss(services, n)
    /\ services' = [services EXCEPT ![n] = NextHandle(asked, n)]
    /\ asked' = [asked EXCEPT ![n] = @ + 1]
    /\ lastUse' = [name |-> n, outcome |-> "raised", ret |-> NoService,
                   cache0 |-> services, asked0 |-> asked]
    /\ nCalls' = [nCalls EXCEPT ![n] = @ + 1]
    /\ UNCHANGED <<firstRet, fetched, upc, uname, ulocal, ulater, uheld>>
    /\ UNCHANGED <<lifeVars, runVars, touchVars, waitVars>>

\* use_service(behavior, n) when session.service(n) raises (line 26): the
\* exception leaves use_service before line 27
UseServiceRaise(n) ==
    /\ CanUse(CacheState, n)
    /\ CacheMiss(services, n)
    /\ asked' = [asked EXCEPT ![n] = @ + 1]
    /\ lastUse' = [name |-> n, outcome |-> "raised", ret |-> NoService,
                   cache0 |-> services, asked0 |-> asked]
    /\ nCalls' = [nCalls EXCEPT ![n] = @ + 1]
    /\ UNCHANGED <<services, firstRet, fetched, upc, uname, ulocal, ulater,
                   uheld>>
    /\ UNCHANGED <<lifeVars, runVars, touchVars, waitVars>>

\* ------------------------------------------- use_service on two threads
\* use_service takes no lock: between its lines another thread can run.

\* the names the two threads ask for
RaceNames == {"ALMemory", "ALTextToSpeech"}

\* the calls for n that have begun and not returned
InProgress(n) == {t \in Threads : upc[t] # "idle" /\ uname[t] = n}

\* the calls for n that will ask, or are asking, the session
Fetching(n) == {t \in InProgress(n) : upc[t] = "fetch"}

\* lines 24-25: the cache is read into the local variable and tested
UseGet(t, n) ==
    /\ upc[t] = "idle"
    /\ nCalls[n] < MaxAsk + 1
    /\ CacheMiss(services, n) => asked[n] + Cardinality(Fetching(n)) < MaxAsk
    /\ uname' = [uname EXCEPT ![t] = n]
    /\ ulocal' = [ulocal EXCEPT ![t] = CacheGet(services, n)]
    /\ ulater' = [ulater EXCEPT ![t] =
                     services[n] # NoService /\ InProgress(n) = {}]
    /\ upc' = [upc EXCEPT ![t] =
                  IF CacheMiss(services, n) THEN "fetch" ELSE "return"]
    /\ nCalls' = [nCalls EXCEPT ![n] = @ + 1]
    /\ UNCHANGED <<services, asked, lastUse, firstRet, fetched, uheld>>
    /\ UNCHANGED <<lifeVars, runVars, touchVars, waitVars>>

\* line 26: the session answers with a new handle
UseFetch(t) ==
    /\ upc[t] = "fetch"
    /\ ulocal' = [ulocal EXCEPT ![t] = NextHandle(asked, uname[t])]
    /\ asked' = [asked EXCEPT ![uname[t]] = @ + 1]
    /\ fetched' = [fetched EXCEPT ![uname[t]] = @ + 1]
    /\ upc' = [upc EXCEPT ![t] = "store"]
    /\ UNCHANGED <<services, lastUse, firstRet, nCalls, uname, ulater, uheld>>
    /\ UNCHANGED <<lifeVars, runVars, touchVars, waitVars>>

\* faulty variant: the fetched handle is returned but never stored
UseStore_Skips(t) ==
    /\ upc[t] = "store"
    /\ upc' = [upc EXCEPT ![t] = "return"]
    /\ UNCHANGED <<services, asked, lastUse, firstRet, nCalls, fetched, uname, ulocal,
                   ulater, uheld>>
    /\ UNCHANGED <<lifeVars, runVars, touchVars, waitVars>>

\* line 27: the handle is stored, over whatever the entry holds by now
UseStore(t) ==
    /\ upc[t] = "store"
    /\ services' = [services EXCEPT ![uname[t]] = ulocal[t]]
    /\ upc' = [upc EXCEPT ![t] = "return"]
    /\ UNCHANGED <<asked, lastUse, firstRet, nCalls, fetched, uname, ulocal,
                   ulater, uheld>>
    /\ UNCHANGED <<lifeVars, runVars, touchVars, waitVars>>

\* line 28: the local variable is returned to the caller
UseReturn(t) ==
    /\ upc[t] = "return"
    /\ uheld' = [uheld EXCEPT ![t] =
                    [name |-> uname[t], ret |-> ulocal[t], later |-> ulater[t]]]
    /\ firstRet' = IF firstRet[uname[t]] = NoService
                   THEN [firstRet EXCEPT ![uname[t]] = ulocal[t]]
                   ELSE firstRet
    /\ upc' = [upc EXCEPT ![t] = "idle"]
    /\ UNCHANGED <<services, asked, lastUse, nCalls, fetched, uname, ulocal,
                   ulater>>
    /\ UNCHANGED <<lifeVars, runVars, touchVars, waitVars>>

\* -------------------------------------------------------------- Behavior
\* Behavior.__init__ (lines 106-118): the three services are resolved
\* through the cache, in this order
Construct(b) ==
    /\ ~constructed[b]
    /\ LET c1 == UseStep(CacheState, "ALMemory")
           c2 == UseStep(c1, "ALTextToSpeech")
           c3 == UseStep(c2, "ALLandMarkDetection")
       IN /\ CanUse(CacheState, "ALMemory")
          /\ CanUse(c1, "ALTextToSpeech")
          /\ CanUse(c2, "ALLandMarkDetection")
          /\ SetCache(c3)
    /\ constructed' = [constructed EXCEPT ![b] = TRUE]
    /\ UNCHANGED <<active, nActivate, nDeactivate, lastOps, hookLog,
                   hstack, hraised>>
    /\ UNCHANGED <<runVars, touchVars, waitVars>>

\* the record of one lifecycle call: the state it found
OpRecord(b, op, by) ==
    [op |-> op, by |-> by, wasActive |-> active[b],
     acts |-> nActivate[b], deacts |-> nDeactivate[b]]

\* lastOps keeps the last two calls
Remember(b, rec) ==
    lastOps' = [lastOps EXCEPT ![b] =
                   IF Len(@) < 2 THEN Append(@, rec) ELSE <<@[2], rec>>]

\* faulty variant: activate without the guard
ShouldActivate_Always(b) == TRUE

\* line 126: the guard of activate
ShouldActivate(b) == ~active[b]

\* faulty variant: deactivate without the guard
ShouldDeactivate_Always(b) == TRUE

\* line 136: the guard of deactivate
ShouldDeactivate(b) == active[b]

\* Behavior.activate (lines 120-129); on_activate is the base no-op hook
\* (lines 225-230), counted
DoActivate(b, by) ==
    /\ constructed[b]
    /\ IF ShouldActivate(b)
       THEN /\ nActivate[b] < MaxHooks
            /\ active' = [active EXCEPT ![b] = TRUE]
            /\ nActivate' = [nActivate EXCEPT ![b] = @ + 1]
            /\ hookLog' = [hookLog EXCEPT ![b] = Append(@, "on_activate")]
       ELSE UNCHANGED <<active, nActivate, hookLog>>
    /\ Remember(b, OpRecord(b, "activate", by))
    /\ UNCHANGED <<constructed, nDeactivate, hstack, hraised>>

\* faulty variant: deactivate invokes the hook and leaves the flag set
DoDeactivate_KeepsFlag(b, by) ==
    /\ constructed[b]
    /\ IF ShouldDeactivate(b)
       THEN /\ nDeactivate[b] < MaxHooks
            /\ nDeactivate' = [nDeactivate EXCEPT ![b] = @ + 1]
            /\ hookLog' = [hookLog EXCEPT ![b] = Append(@, "on_deactivate")]
            /\ UNCHANGED active
       ELSE UNCHANGED <<active, nDeactivate, hookLog>>
    /\ Remember(b, OpRecord(b, "deactivate", by))
    /\ UNCHANGED <<constructed, nActivate, hstack, hraised>>

\* Behavior.deactivate (lines 131-138); on_deactivate is the base no-op
\* hook (lines 232-237), counted
DoDeactivate(b, by) ==
    /\ constructed[b]
    /\ IF ShouldDeactivate(b)
       THEN /\ nDeactivate[b] < MaxHooks
            /\ active' = [active EXCEPT ![b] = FALSE]
            /\ nDeactivate' = [nDeactivate EXCEPT ![b] = @ + 1]
            /\ hookLog' = [hookLog EXCEPT ![b] = Append(@, "on_deactivate")]
       ELSE UNCHANGED <<active, nDeactivate, hookLog>>
    /\ Remember(b, OpRecord(b, "deactivate", by))
    /\ UNCHANGED <<constructed, nActivate, hstack, hraised>>

\* User code runs on the main thread before run is called and in the
\* callbacks the event loop dispatches, not while run is on its way to the
\* loop.
UserCode == \A a \in Apps : rpc[a] \in {"idle", "loop"}

\* user code calls behavior.activate()
Activate(b) ==
    /\ UserCode
    /\ DoActivate(b, "user")
    /\ UNCHANGED <<cacheVars, runVars, touchVars, waitVars>>

\* user code calls behavior.deactivate()
Deactivate(b) ==
    /\ UserCode
    /\ DoDeactivate(b, "user")
    /\ UNCHANGED <<cacheVars, runVars, touchVars, waitVars>>

\* ------------------------------------------- hooks that call back or fail
\* The hooks are overridable (lines 225-237). Here a hook is entered, may
\* call the method that invoked it again, and returns or raises.

\* faulty variant: activate invokes the hook before it sets the flag
CallActivate_FlagAfter(b, by) ==
    /\ constructed[b]
    /\ IF ShouldActivate(b)
       THEN /\ nActivate[b] < MaxHooks
            /\ nActivate' = [nActivate EXCEPT ![b] = @ + 1]
            /\ hookLog' = [hookLog EXCEPT ![b] = Append(@, "on_activate")]
            /\ hstack' = [hstack EXCEPT ![b] = Append(@, "on_activate")]
            /\ hraised' = [hraised EXCEPT ![b] = "none"]
            /\ UNCHANGED active
       ELSE UNCHANGED <<active, nActivate, hookLog, hstack, hraised>>
    /\ Remember(b, OpRecord(b, "activate", by))
    /\ UNCHANGED <<constructed, nDeactivate>>

\* activate up to the entry of on_activate (lines 126-129): the flag is set
\* (line 128), then the hook is invoked (line 129)
CallActivate(b, by) ==
    /\ constructed[b]
    /\ IF ShouldActivate(b)
       THEN /\ nActivate[b] < MaxHooks
            /\ active' = [active EXCEPT ![b] = TRUE]
            /\ nActivate' = [nActivate EXCEPT ![b] = @ + 1]
            /\ hookLog' = [hookLog EXCEPT ![b] = Append(@, "on_activate")]
            /\ hstack' = [hstack EXCEPT ![b] = Append(@, "on_activate")]
            /\ hraised' = [hraised EXCEPT ![b] = "none"]
       ELSE UNCHANGED <<active, nActivate, hookLog, hstack, hraised>>
    /\ Remember(b, OpRecord(b, "activate", by))
    /\ UNCHANGED <<constructed, nDeactivate>>

\* deactivate up to the entry of on_deactivate (lines 136-138): the flag is
\* cleared (line 137), then the hook is invoked (line 138)
CallDeactivate(b, by) ==
    /\ constructed[b]
    /\ IF ShouldDeactivate(b)
       THEN /\ nDeactivate[b] < MaxHooks
            /\ active' = [active EXCEPT ![b] = FALSE]
            /\ nDeactivate' = [nDeactivate EXCEPT ![b] = @ + 1]
            /\ hookLog' = [hookLog EXCEPT ![b] = Append(@, "on_deactivate")]
            /\ hstack' = [hstack EXCEPT ![b] = Append(@, "on_deactivate")]
            /\ hraised' = [hraised EXCEPT ![b] = "none"]
       ELSE UNCHANGED <<active, nDeactivate, hookLog, hstack, hraised>>
    /\ Remember(b, OpRecord(b, "deactivate", by))
    /\ UNCHANGED <<constructed, nActivate>>

\* user code, outside any hook, calls behavior.activate()
ActivateEnter(b) ==
    /\ hstack[b] = <<>>
    /\ CallActivate(b, "user")
    /\ UNCHANGED <<cacheVars, runVars, touchVars, waitVars>>

\* user code, outside any hook, calls behavior.deactivate()
DeactivateEnter(b) ==
    /\ hstack[b] = <<>>
    /\ CallDeactivate(b, "user")
    /\ UNCHANGED <<cacheVars, runVars, touchVars, waitVars>>

\* on_activate, while it runs, calls self.activate()
ActivateReenter(b) ==
    /\ hstack[b] # <<>>
    /\ hstack[b][Len(hstack[b])] = "on_activate"
    /\ CallActivate(b, "hook")
    /\ UNCHANGED <<cacheVars, runVars, touchVars, waitVars>>

\* on_deactivate, while it runs, calls self.deactivate()
DeactivateReenter(b) ==
    /\ hstack[b] # <<>>
    /\ hstack[b][Len(hstack[b])] = "on_deactivate"
    /\ CallDeactivate(b, "hook")
    /\ UNCHANGED <<cacheVars, runVars, touchVars, waitVars>>

\* the innermost hook returns, and with it the call that invoked it
HookReturn(b) ==
    /\ hstack[b] # <<>>
    /\ hstack' = [hstack EXCEPT ![b] = SubSeq(@, 1, Len(@) - 1)]
    /\ UNCHANGED <<constructed, active, nActivate, nDeactivate, lastOps,
                   hookLog, hraised>>
    /\ UNCHANGED <<cacheVars, runVars, touchVars, waitVars>>

\* the innermost hook raises: neither activate nor deactivate catches, so
\* the exception leaves every call on the stack and nothing is undone
HookRaise(b) ==
    /\ hstack[b] # <<>>
    /\ hraised' = [hraised EXCEPT ![b] = hstack[b][Len(hstack[b])]]
    /\ hstack' = [hstack EXCEPT ![b] = <<>>]
    /\ UNCHANGED <<constructed, active, nActivate, nDeactivate, lastOps,
                   hookLog>>
    /\ UNCHANGED <<cacheVars, runVars, touchVars, waitVars>>

\* ------------------------------------------------------- Application.run
\* rpc[a]: "idle" before run is called, then the statement reached.
\* naox.Application.run line 77 / core Application.run line 20
RunStore(a, b) ==
    /\ app = None
    /\ rpc[a] = "idle"
    /\ constructed[b]
    /\ rpc' = [rpc EXCEPT ![a] = "stored"]
    /\ runArg' = [runArg EXCEPT ![a] = b]
    /\ current_behavior' = [current_behavior EXCEPT ![a] = b]
    /\ runSnap' = [runSnap EXCEPT ![a] =
                      [wasActive |-> active[b], acts |-> 0]]
    /\ app' = a
    /\ UNCHANGED session
    /\ UNCHANGED <<cacheVars, lifeVars, touchVars, waitVars>>

\* naox.Application.run line 78: self.current_behavior.activate()
RunActivate ==
    /\ rpc["naox"] = "stored"
    /\ DoActivate(current_behavior["naox"], "run")
    /\ rpc' = [rpc EXCEPT !["naox"] = "activated"]
    /\ runSnap' = [runSnap EXCEPT !["naox"].acts =
                      @ + nActivate'[current_behavior["naox"]]
                        - nActivate[current_behavior["naox"]]]
    /\ UNCHANGED <<app, runArg, current_behavior, session>>
    /\ UNCHANGED <<cacheVars, touchVars, waitVars>>

\* faulty variant: run opens a session of its own before the loop
RunLoop_Reopens ==
    /\ rpc["naox"] = "activated"
    /\ rpc' = [rpc EXCEPT !["naox"] = "loop"]
    /\ session' = [session EXCEPT !["naox"] = @ + 1]
    /\ UNCHANGED <<app, runArg, current_behavior, runSnap>>
    /\ UNCHANGED <<cacheVars, lifeVars, touchVars, waitVars>>

\* naox.Application.run line 79: self.qi_application.run()
RunLoop ==
    /\ rpc["naox"] = "activated"
    /\ rpc' = [rpc EXCEPT !["naox"] = "loop"]
    /\ UNCHANGED <<app, runArg, current_behavior, runSnap, session>>
    /\ UNCHANGED <<cacheVars, lifeVars, touchVars, waitVars>>

\* core Application.run lines 21-23: the qi application is created and
\* started and its session kept
CoreRunStart ==
    /\ rpc["core"] = "stored"
    /\ rpc' = [rpc EXCEPT !["core"] = "started"]
    /\ session' = [session EXCEPT !["core"] = @ + 1]
    /\ UNCHANGED <<app, runArg, current_behavior, runSnap>>
    /\ UNCHANGED <<cacheVars, lifeVars, touchVars, waitVars>>

\* core Application.run lines 24-25: the greeting is spoken
CoreRunSay ==
    /\ rpc["core"] = "started"
    /\ rpc' = [rpc EXCEPT !["core"] = "said"]
    /\ UNCHANGED <<app, runArg, current_behavior, runSnap, session>>
    /\ UNCHANGED <<cacheVars, lifeVars, touchVars, waitVars>>

\* core Application.run line 26: self.qi_application.run()
CoreRunLoop ==
    /\ rpc["core"] = "said"
    /\ rpc' = [rpc EXCEPT !["core"] = "loop"]
    /\ UNCHANGED <<app, runArg, current_behavior, runSnap, session>>
    /\ UNCHANGED <<cacheVars, lifeVars, touchVars, waitVars>>

\* ------------------------------------------------------- on_body_touched
\* Python truthiness of an Optional[str]
StrTruthy(x) == x # None /\ x # ""

\* faulty variant: the flag of the update is not tested
FlagTruthy_Always(u) == TRUE

\* line 168: if touch_update[1]
FlagTruthy(u) == u[2]

\* faulty variant: the requested filter is not applied
Skipped_Never(body_part, part) == FALSE

\* line 170: the update is skipped when a filter was requested and differs
Skipped(body_part, part) == StrTruthy(body_part) /\ body_part # part

\* touch_verifier (lines 160-173): the arguments of the callback
\* invocations one batch causes, in order
RECURSIVE TouchVerifier(_, _)
TouchVerifier(touch_updates, body_part) ==
    IF touch_updates = <<>> THEN <<>>
    ELSE LET touch_update == Head(touch_updates)
             later == TouchVerifier(Tail(touch_updates), body_part)
         IN IF FlagTruthy(touch_update)
            THEN IF Skipped(body_part, touch_update[1])
                 THEN later
                 ELSE <<touch_update[1]>> \o later
            ELSE later

\* self.touch_subscribers of instance b: no instance ever assigns the
\* attribute, so the lookup reaches the list of the class (line 103)
InstanceSubscribers(b) == touch_subscribers

\* faulty variant: the new connection takes the place of the earlier ones
Subscribe_Replaces(b, cb, body_part) ==
    /\ constructed[b]
    /\ subs' = <<[owner |-> b, cb |-> cb, body_part |-> body_part]>>
    /\ touch_subscribers' = <<1>>
    /\ lastCalls' = <<[heard |-> FALSE, calls |-> <<>>]>>
    /\ UNCHANGED <<epc, lastBatch>>

\* on_body_touched(callback, body_part) on b (lines 157-175): a new
\* subscriber is appended to the list and the filter connected to its signal
Subscribe(b, cb, body_part) ==
    /\ constructed[b]
    /\ subs' = Append(subs, [owner |-> b, cb |-> cb, body_part |-> body_part])
    /\ touch_subscribers' = Append(InstanceSubscribers(b), Len(subs) + 1)
    /\ lastCalls' = Append(lastCalls, [heard |-> FALSE, calls |-> <<>>])
    /\ UNCHANGED <<epc, lastBatch>>

\* user code registers one callback more, others being registered already
OnBodyTouchedAgain(b, body_part) ==
    /\ Len(subs) < MaxMultiSubs
    /\ Subscribe(b, "user", body_part)
    /\ UNCHANGED <<cacheVars, lifeVars, runVars, waitVars>>

\* user code calls behavior.on_body_touched(callback, body_part)
OnBodyTouched(b, body_part) ==
    /\ Len(subs) < MaxSubs
    /\ Subscribe(b, "user", body_part)
    /\ UNCHANGED <<cacheVars, lifeVars, runVars, waitVars>>

\* ----------------------------------------------------------- await_touch
\* faulty variant: touch_callback without its test
Accepts_Any(body_part, body_parts) == TRUE

\* line 198: the test of touch_callback
Accepts(body_part, body_parts) == body_part = None \/ body_part = body_parts

\* touch_callback (lines 191-200) run on each invocation in turn:
\* w = [part |-> touched_part[0], set |-> touch_event.is_set()]
RECURSIVE TouchCallbacks(_, _, _)
TouchCallbacks(calls, body_part, w) ==
    IF calls = <<>> THEN w
    ELSE TouchCallbacks(Tail(calls), body_part,
             IF Accepts(body_part, Head(calls))
             THEN [part |-> Head(calls), set |-> TRUE]
             ELSE w)

\* the class body (lines 95-104) and __init__ (lines 106-118) define
\* touch_subscribers and marker_subscribers, and no attribute subscribers
HasSubscribersAttr == FALSE

\* the first invocation touch_callback accepts (line 198), None without one
RECURSIVE FirstAccepted(_, _)
FirstAccepted(calls, body_part) ==
    IF calls = <<>> THEN None
    ELSE IF Accepts(body_part, Head(calls)) THEN Head(calls)
    ELSE FirstAccepted(Tail(calls), body_part)

\* await_touch lines 188-202: the Event and the cell are created and the
\* internal callback subscribed
AwaitBegin(t, b, body_part) ==
    /\ wpc[t] = "idle"
    /\ Subscribe(b, t, body_part)
    /\ wpc' = [wpc EXCEPT ![t] = "waiting"]
    /\ wfilter' = [wfilter EXCEPT ![t] = body_part]
    /\ wowner' = [wowner EXCEPT ![t] = b]
    /\ touch_event' = [touch_event EXCEPT ![t] = FALSE]
    /\ touched_part' = [touched_part EXCEPT ![t] = None]
    /\ wsub' = [wsub EXCEPT ![t] = Len(subs) + 1]
    /\ UNCHANGED <<wresult, wseen, wlate, wfirst, wpassed>>
    /\ UNCHANGED <<cacheVars, lifeVars, runVars>>

\* await_touch called on a thread of its own, up to the wait of line 203
AwaitTouch(t, b, body_part) ==
    /\ AwaitBegin(t, b, body_part)
    /\ UNCHANGED eblocked

\* await_touch called on the event-delivery thread (from a callback the
\* signal invoked): that thread itself blocks in the wait of line 203
AwaitTouchOnEventThread(t, b, body_part) ==
    /\ eblocked = None
    /\ AwaitBegin(t, b, body_part)
    /\ eblocked' = t

\* faulty variant: batches are delivered while a callback still blocks the
\* event-delivery thread
EventThreadFree_Always == TRUE

\* the event-delivery thread runs one callback at a time: it delivers no
\* batch while a callback it invoked is blocked in touch_event.wait()
EventThreadFree ==
    IF eblocked = None THEN TRUE ELSE wpc[eblocked] # "waiting"

\* line 203: touch_event.wait() returns once the Event is set
AwaitWake(t) ==
    /\ wpc[t] = "waiting"
    /\ touch_event[t]
    /\ wpc' = [wpc EXCEPT ![t] = "woken"]
    /\ UNCHANGED <<wfilter, wowner, touch_event, touched_part, wsub, wresult,
                   wseen, wlate, wfirst, wpassed, eblocked>>
    /\ UNCHANGED <<cacheVars, lifeVars, runVars, touchVars>>

\* lines 204-206: self.subscribers.clear(), then return touched_part[0];
\* the attribute lookup raises AttributeError when the attribute is missing
AwaitFinish(t) ==
    /\ wpc[t] = "woken"
    /\ wpc' = [wpc EXCEPT ![t] = "done"]
    /\ wresult' = [wresult EXCEPT ![t] =
                      IF HasSubscribersAttr
                      THEN [kind |-> "return", value |-> touched_part[t]]
                      ELSE [kind |-> "AttributeError", value |-> None]]
    /\ UNCHANGED <<wfilter, wowner, touch_event, touched_part, wsub, wseen,
                   wlate, wfirst, wpassed, eblocked>>
    /\ UNCHANGED <<cacheVars, lifeVars, runVars, touchVars>>

\* ------------------------------------------------------- event delivery
\* the batches the sensor bus delivers
RECURSIVE SeqsUpTo(_, _)
SeqsUpTo(S, n) ==
    IF n = 0 THEN {<<>>}
    ELSE LET shorter == SeqsUpTo(S, n - 1)
         IN shorter \cup {Append(q, x) : q \in shorter, x \in S}

\* delivered to the user callbacks: updates of the two arms
Batches == SeqsUpTo({"LArm", "RArm"} \X BOOLEAN, MaxBatch)

\* delivered to the blocking waits: updates of the head and of one arm
WaitBatches == SeqsUpTo({HEAD_FRONT_TOUCH, "LArm"} \X BOOLEAN, MaxWaitBatch)

\* a truthy update of the batch that matches the filter of a wait
HasMatch(batch, body_part) ==
    \E i \in 1..Len(batch) :
        batch[i][2] /\ (body_part = None \/ batch[i][1] = body_part)

\* the waits whose internal callback is connected
Waiting == {t \in Threads : wsub[t] # 0}

\* what every connected touch_verifier invokes for one batch
CallsOf(batch) ==
    [i \in 1..Len(subs) |-> TouchVerifier(batch, subs[i].body_part)]

\* The internal callbacks of await_touch among the invocations: each records
\* the part and sets the Event (lines 198-200).
RunCallbacks(batch) ==
    /\ LET after(t) ==
               TouchCallbacks(CallsOf(batch)[wsub[t]], wfilter[t],
                              [part |-> touched_part[t],
                               set |-> touch_event[t]])
       IN /\ touched_part' = [t \in Threads |->
                 IF t \in Waiting THEN after(t).part ELSE touched_part[t]]
          /\ touch_event' = [t \in Threads |->
                 IF t \in Waiting THEN after(t).set ELSE touch_event[t]]
    /\ wseen' = [t \in Threads |->
                    wseen[t] \/ (t \in Waiting /\ HasMatch(batch, wfilter[t]))]
    /\ wlate' = [t \in Threads |->
                    wlate[t] \/ (wpc[t] = "done"
                                 /\ CallsOf(batch)[wsub[t]] # <<>>)]
    /\ wfirst' = [t \in Threads |->
                     IF t \in Waiting /\ wfirst[t] = None
                     THEN FirstAccepted(CallsOf(batch)[wsub[t]], wfilter[t])
                     ELSE wfirst[t]]
    /\ wpassed' = [t \in Threads |->
                      wpassed[t] \/ (t \in Waiting
                                     /\ CallsOf(batch)[wsub[t]] # <<>>)]
    /\ UNCHANGED <<wpc, wfilter, wowner, wsub, wresult, eblocked>>

\* The vendor signal delivers one batch to every connected touch_verifier on
\* the event-delivery thread, which then holds the batch until the dispatch
\* returns.
Deliver(batch) ==
    /\ epc = "idle"
    /\ EventThreadFree
    /\ subs # <<>>
    /\ epc' = "delivered"
    /\ lastBatch' = batch
    /\ lastCalls' = [i \in 1..Len(subs) |->
                        [heard |-> TRUE, calls |-> CallsOf(batch)[i]]]
    /\ RunCallbacks(batch)
    /\ UNCHANGED <<touch_subscribers, subs>>
    /\ UNCHANGED <<cacheVars, lifeVars, runVars>>

\* the dispatch of the batch returns and the batch is dropped
DeliverEnd ==
    /\ epc = "delivered"
    /\ epc' = "idle"
    /\ lastBatch' = <<>>
    /\ lastCalls' = [i \in 1..Len(subs) |-> [heard |-> FALSE, calls |-> <<>>]]
    /\ UNCHANGED <<touch_subscribers, subs>>
    /\ UNCHANGED <<cacheVars, lifeVars, runVars, waitVars>>

\* The delivery of one batch from the vendor signal to the return of its
\* dispatch, in one step.
Dispatch(batch) ==
    /\ epc = "idle"
    /\ EventThreadFree
    /\ subs # <<>>
    /\ RunCallbacks(batch)
    /\ UNCHANGED <<cacheVars, lifeVars, runVars, touchVars>>

\* ------------------------------------------------------- specifications
\* naox.Application.__init__ starts the qi application and keeps its session
\* (lines 62-66); core Application.__init__ stores name and address only
OpensSessionAtConstruct(a) == a = "naox"

Init ==
    /\ services = [n \in Names |-> NoService]
    /\ asked = [n \in Names |-> 0]
    /\ lastUse = [name |-> None, outcome |-> "none", ret |-> NoService,
                  cache0 |-> [n \in Names |-> NoService],
                  asked0 |-> [n \in Names |-> 0]]
    /\ firstRet = [n \in Names |-> NoService]
    /\ nCalls = [n \in Names |-> 0]
    /\ fetched = [n \in Names |-> 0]
    /\ upc = [t \in Threads |-> "idle"]
    /\ uname = [t \in Threads |-> None]
    /\ ulocal = [t \in Threads |-> NoService]
    /\ ulater = [t \in Threads |-> FALSE]
    /\ uheld = [t \in Threads |->
                   [name |-> None, ret |-> NoService, later |-> FALSE]]
    /\ constructed = [b \in Behaviors |-> FALSE]
    /\ active = [b \in Behaviors |-> FALSE]
    /\ nActivate = [b \in Behaviors |-> 0]
    /\ nDeactivate = [b \in Behaviors |-> 0]
    /\ lastOps = [b \in Behaviors |-> <<>>]
    /\ hookLog = [b \in Behaviors |-> <<>>]
    /\ hstack = [b \in Behaviors |-> <<>>]
    /\ hraised = [b \in Behaviors |-> "none"]
    /\ app = None
    /\ rpc = [a \in Apps |-> "idle"]
    /\ runArg = [a \in Apps |-> None]
    /\ current_behavior = [a \in Apps |-> None]
    /\ runSnap = [a \in Apps |-> [wasActive |-> FALSE, acts |-> 0]]
    /\ session = [a \in Apps |-> IF OpensSessionAtConstruct(a) THEN 1 ELSE 0]
    /\ touch_subscribers = <<>>
    /\ subs = <<>>
    /\ epc = "idle"
    /\ lastBatch = <<>>
    /\ lastCalls = <<>>
    /\ wpc = [t \in Threads |-> "idle"]
    /\ wfilter = [t \in Threads |-> None]
    /\ wowner = [t \in Threads |-> None]
    /\ touch_event = [t \in Threads |-> FALSE]
    /\ touched_part = [t \in Threads |-> None]
    /\ wsub = [t \in Threads |-> 0]
    /\ wresult = [t \in Threads |-> [kind |-> "none", value |-> None]]
    /\ wseen = [t \in Threads |-> FALSE]
    /\ wlate = [t \in Threads |-> FALSE]
    /\ wfirst = [t \in Threads |-> None]
    /\ wpassed = [t \in Threads |-> FALSE]
    /\ eblocked = None

\* the service cache under single-threaded use
NextCache ==
    \/ \E n \in Names : UseService(n)
    \/ \E n \in Names : UseServiceRaise(n)
    \/ \E b \in Behaviors : Construct(b)

SpecCache == Init /\ [][NextCache]_vars

\* the service cache used from two threads, line by line
NextRace ==
    \/ \E t \in Threads, n \in RaceNames : UseGet(t, n)
    \/ \E t \in Threads : UseFetch(t)
    \/ \E t \in Threads : UseStore(t)
    \/ \E t \in Threads : UseReturn(t)

SpecRace == Init /\ [][NextRace]_vars

\* the lifecycle of the behaviors and Application.run
NextLife ==
    \/ \E b \in Behaviors : Construct(b)
    \/ \E b \in Behaviors : Activate(b)
    \/ \E b \in Behaviors : Deactivate(b)
    \/ \E a \in Apps, b \in Behaviors : RunStore(a, b)
    \/ RunActivate
    \/ RunLoop
    \/ CoreRunStart
    \/ CoreRunSay
    \/ CoreRunLoop

SpecLife == Init /\ [][NextLife]_vars

\* the lifecycle with hooks that call back or fail
NextHook ==
    \/ \E b \in Behaviors : Construct(b)
    \/ \E b \in Behaviors : ActivateEnter(b)
    \/ \E b \in Behaviors : DeactivateEnter(b)
    \/ \E b \in Behaviors : ActivateReenter(b)
    \/ \E b \in Behaviors : DeactivateReenter(b)
    \/ \E b \in Behaviors : HookReturn(b)
    \/ \E b \in Behaviors : HookRaise(b)

SpecHook == Init /\ [][NextHook]_vars

\* touch subscriptions of user callbacks
NextTouch ==
    \/ \E b \in Behaviors : Construct(b)
    \/ \E b \in Behaviors, f \in Filters : OnBodyTouched(b, f)
    \/ \E batch \in Batches : Deliver(batch)
    \/ DeliverEnd

SpecTouch == Init /\ [][NextTouch]_vars

\* several callbacks registered one after another, and short batches
NextMulti ==
    \/ \E b \in Behaviors : Construct(b)
    \/ \E b \in Behaviors, f \in Filters : OnBodyTouchedAgain(b, f)
    \/ \E batch \in WaitBatches : Deliver(batch)
    \/ DeliverEnd

SpecMulti == Init /\ [][NextMulti]_vars

\* the blocking wait
NextWait ==
    \/ \E b \in Behaviors : Construct(b)
    \/ \E t \in Threads, b \in Behaviors, f \in Filters : AwaitTouch(t, b, f)
    \/ \E t \in Threads : AwaitWake(t)
    \/ \E t \in Threads : AwaitFinish(t)
    \/ \E batch \in WaitBatches : Dispatch(batch)

SpecWait == Init /\ [][NextWait]_vars

\* blocking waits, some of them called on the event-delivery thread, with
\* every thread that can run scheduled eventually; the sensor bus is under
\* no obligation to deliver anything
NextWaitFair ==
    \/ NextWait
    \/ \E t \in Threads, b \in Behaviors, f \in Filters :
           AwaitTouchOnEventThread(t, b, f)

SpecWaitFair ==
    /\ Init
    /\ [][NextWaitFair]_vars
    /\ \A t \in Threads : WF_vars(AwaitWake(t)) /\ WF_vars(AwaitFinish(t))

Next ==
    \/ NextCache
    \/ NextRace
    \/ NextLife
    \/ NextTouch
    \/ NextMulti
    \/ NextWaitFair
    \/ NextHook

Spec == Init /\ [][Next]_vars

\* ================================================================ claims
ExampleBatch == <<<<"LArm", TRUE>>, <<"RArm", FALSE>>, <<"LArm", TRUE>>>>

\* C1 (SpecCache): under single-threaded use every call that returns a handle
\* for a name returns the handle the first such call returned, the session
\* answers at most once per name, and a cache hit neither asks the session
\* nor changes the cache.
C1_Memoized ==
    /\ \A n \in Names : fetched[n] <= 1
    /\ lastUse.outcome \in {"hit", "fetched"}
          => lastUse.ret = firstRet[lastUse.name]
    /\ lastUse.outcome = "hit"
          => /\ asked = lastUse.asked0
             /\ services = lastUse.cache0
             /\ lastUse.ret = lastUse.cache0[lastUse.name]

\* a third call for a name was served from the cache after one fetch
C1_Witness ==
    /\ lastUse.outcome = "hit"
    /\ nCalls[lastUse.name] = 3
    /\ fetched[lastUse.name] = 1

\* C2 (SpecWait): await_touch(body_part) completes normally and returns the
\* identifier of the touched part that matched the filter.
C2_ReturnsPart ==
    \A t \in Threads :
        wpc[t] = "done"
            => /\ wresult[t].kind = "return"
               /\ wresult[t].value \in Parts
               /\ wfilter[t] # None => wresult[t].value = wfilter[t]

\* C3 (SpecWait): a wait with a non-None filter is released only after a
\* truthy update whose part equals the filter was delivered to its
\* subscription.
C3_ReleasedOnlyByMatch ==
    \A t \in Threads :
        (wpc[t] \in {"woken", "done"} /\ wfilter[t] # None) => wseen[t]

\* a wait on the head was released by a batch that left an earlier wait on
\* the arm blocked
C3_Witness ==
    \E t, u \in Threads :
        /\ wpc[t] = "woken" /\ wfilter[t] = HEAD_FRONT_TOUCH /\ wseen[t]
        /\ wpc[u] = "waiting" /\ wfilter[u] = "LArm" /\ ~touch_event[u]
        /\ wsub[u] < wsub[t]

\* C4 (SpecWait): when await_touch has finished, the subscription it created
\* is no longer in the Behavior's subscription list and its internal callback
\* is not invoked by later batches.
C4_SubscriptionCleared ==
    \A t \in Threads :
        wpc[t] = "done"
            => /\ \A i \in 1..Len(InstanceSubscribers(wowner[t])) :
                      InstanceSubscribers(wowner[t])[i] # wsub[t]
               /\ ~wlate[t]

\* C5 (SpecLife): two activate() calls in succession invoke on_activate once
\* in total when the behavior was inactive and never when it was active; the
\* second call changes neither the flag nor a hook count.
C5_ActivateTwice ==
    \A b \in Behaviors :
        (/\ Len(lastOps[b]) = 2
         /\ lastOps[b][1].op = "activate"
         /\ lastOps[b][2].op = "activate")
            => /\ nActivate[b] - lastOps[b][1].acts
                      = IF lastOps[b][1].wasActive THEN 0 ELSE 1
               /\ nDeactivate[b] = lastOps[b][1].deacts
               /\ active[b] = lastOps[b][2].wasActive
               /\ nActivate[b] = lastOps[b][2].acts
               /\ nDeactivate[b] = lastOps[b][2].deacts

\* activate() was called twice in succession on an inactive behavior
C5_Witness ==
    \E b \in Behaviors :
        /\ Len(lastOps[b]) = 2
        /\ lastOps[b][1].op = "activate" /\ ~lastOps[b][1].wasActive
        /\ lastOps[b][2].op = "activate"
        /\ nActivate[b] = lastOps[b][1].acts + 1

\* C6 (SpecLife): deactivate() on an inactive behavior invokes on_deactivate
\* zero times and leaves it inactive; on_deactivate is invoked only by a
\* deactivate() call that takes the behavior from active to inactive.
C6_DeactivateInactive ==
    \A b \in Behaviors :
        lastOps[b] # <<>> =>
            LET o == lastOps[b][Len(lastOps[b])]
            IN /\ (o.op = "deactivate" /\ ~o.wasActive)
                      => (nDeactivate[b] = o.deacts /\ ~active[b]
                          /\ nActivate[b] = o.acts)
               /\ nDeactivate[b] # o.deacts
                      => (/\ o.op = "deactivate" /\ o.wasActive /\ ~active[b]
                          /\ nDeactivate[b] = o.deacts + 1)

\* deactivate() was called on a behavior that was never activated
C6_Witness ==
    \E b \in Behaviors :
        /\ lastOps[b] # <<>>
        /\ lastOps[b][Len(lastOps[b])].op = "deactivate"
        /\ nActivate[b] = 0
        /\ nDeactivate[b] = 0

\* the parts of the truthy updates of a batch, in delivery order
IsTruthyUpdate(u) == u[2]
TruthyParts(batch) ==
    LET sel == SelectSeq(batch, IsTruthyUpdate)
    IN [j \in 1..Len(sel) |-> sel[j][1]]

\* C7 (SpecTouch): a callback registered without a filter is invoked, for
\* every delivered batch, with exactly the parts of the truthy updates, in
\* delivery order, once per such update.
C7_UnfilteredCalls ==
    \A i \in 1..Len(subs) :
        (subs[i].cb = "user" /\ subs[i].body_part = None /\ lastCalls[i].heard)
            => lastCalls[i].calls = TruthyParts(lastBatch)

\* the batch of the example reached a callback registered without a filter
C7_Witness ==
    \E i \in 1..Len(subs) :
        /\ subs[i].cb = "user" /\ subs[i].body_part = None
        /\ lastCalls[i].heard
        /\ lastBatch = ExampleBatch
        /\ lastCalls[i].calls = <<"LArm", "LArm">>

\* C8 (SpecTouch): a callback registered with a part name as filter is
\* invoked only with that part, once per update that is truthy and of that
\* part: never for a falsy update, never for another part.
C8_FilteredCalls ==
    \A i \in 1..Len(subs) :
        (subs[i].cb = "user" /\ subs[i].body_part \in Parts
         /\ lastCalls[i].heard)
            => /\ \A j \in 1..Len(lastCalls[i].calls) :
                      lastCalls[i].calls[j] = subs[i].body_part
               /\ Len(lastCalls[i].calls) =
                      Cardinality({k \in 1..Len(lastBatch) :
                                     /\ lastBatch[k][2]
                                     /\ lastBatch[k][1] = subs[i].body_part})

\* the batch of the example reached a callback filtered on RArm
C8_Witness ==
    \E i \in 1..Len(subs) :
        /\ subs[i].cb = "user" /\ subs[i].body_part = "RArm"
        /\ lastCalls[i].heard
        /\ lastBatch = ExampleBatch
        /\ lastCalls[i].calls = <<>>

\* the subscriptions instance b created, in creation order
RECURSIVE OwnSubs(_, _)
OwnSubs(b, n) ==
    IF n = 0 THEN <<>>
    ELSE IF subs[n].owner = b THEN Append(OwnSubs(b, n - 1), n)
         ELSE OwnSubs(b, n - 1)

\* C9 (SpecTouch): every Behavior instance has its own subscription list,
\* empty at construction and holding only the subscriptions made on that
\* instance.
C9_OwnList ==
    \A b \in Behaviors :
        constructed[b] => InstanceSubscribers(b) = OwnSubs(b, Len(subs))

\* C10 (SpecLife): when run has entered the event loop the behavior is the
\* current one and, if it was inactive, run has invoked on_activate exactly
\* once; on_deactivate is invoked by user calls of deactivate only.
C10_RunActivates ==
    /\ \A a \in Apps :
           rpc[a] = "loop"
               => /\ current_behavior[a] = runArg[a]
                  /\ ~runSnap[a].wasActive => runSnap[a].acts = 1
    /\ \A b \in Behaviors :
           lastOps[b] # <<>> =>
               LET o == lastOps[b][Len(lastOps[b])]
               IN nDeactivate[b] # o.deacts => o.by = "user"

\* C11 (SpecLife): once the naox Application is constructed its session is
\* open and its service cache exists, empty until the first use_service
\* call; a Behavior constructed before run finds its three services through
\* the cache; run keeps the session opened at construction.
C11_ConstructedReady ==
    /\ session["naox"] = 1
    /\ (\A n \in Names : nCalls[n] = 0)
           => \A n \in Names : services[n] = NoService
    /\ \A b \in Behaviors :
           constructed[b]
               => \A n \in Names :
                      /\ services[n] # NoService
                      /\ services[n] = firstRet[n]
                      /\ fetched[n] = 1

\* a Behavior was constructed before run, and run has reached the event loop
\* on the session opened at construction
C11_Witness ==
    /\ rpc["naox"] = "loop"
    /\ constructed[runArg["naox"]]
    /\ session["naox"] = 1
    /\ \A n \in Names : services[n] = Handle(n, 1)

\* C14 (SpecCache): a use_service call whose session lookup fails returns
\* no handle and leaves the cache as it was, with no entry for the name;
\* every call for a name without an entry asks the session, so the call
\* after a failure asks again.
C14_LookupFailure ==
    /\ lastUse.outcome = "raised"
          => /\ lastUse.ret = NoService
             /\ services = lastUse.cache0
             /\ services[lastUse.name] = NoService
    /\ (lastUse.outcome # "none"
        /\ lastUse.cache0[lastUse.name] = NoService)
          => asked[lastUse.name] = lastUse.asked0[lastUse.name] + 1

\* a lookup failed and the next call for the name asked the session again
C14_Witness ==
    /\ lastUse.outcome = "fetched"
    /\ asked[lastUse.name] = 2
    /\ fetched[lastUse.name] = 1
    /\ lastUse.asked0[lastUse.name] = 1

\* C15 (SpecLife): the hooks of a behavior are invoked in strict
\* alternation starting with on_activate, on_deactivate never more often
\* than on_activate, and the behavior is active exactly when on_activate has
\* been invoked once more than on_deactivate; the flag has no third value.
C15_Alternation ==
    \A b \in Behaviors :
        /\ active[b] \in BOOLEAN
        /\ \A i \in 1..Len(hookLog[b]) :
               hookLog[b][i] = IF i % 2 = 1 THEN "on_activate"
                               ELSE "on_deactivate"
        /\ Len(hookLog[b]) = nActivate[b] + nDeactivate[b]
        /\ nDeactivate[b] <= nActivate[b]
        /\ active[b] <=> (nActivate[b] = nDeactivate[b] + 1)
        /\ ~active[b] <=> (nActivate[b] = nDeactivate[b])

\* a behavior went through activate, deactivate, activate, with calls that
\* did nothing in between
C15_Witness ==
    \E b \in Behaviors :
        /\ hookLog[b] = <<"on_activate", "on_deactivate", "on_activate">>
        /\ active[b]
        /\ Len(lastOps[b]) = 2
        /\ lastOps[b][2].op = "activate"
        /\ lastOps[b][2].wasActive

\* C17 (SpecHook): while on_activate runs the flag is already set (and
\* while on_deactivate runs it is already cleared), so a call of the same
\* method from inside the hook does nothing and no hook runs inside itself;
\* after a hook has raised, the flag keeps the value set before the hook,
\* so the next call of the same method does nothing.
C17_FlagBeforeHook ==
    \A b \in Behaviors :
        /\ Len(hstack[b]) <= 1
        /\ hstack[b] = <<"on_activate">> => active[b]
        /\ hstack[b] = <<"on_deactivate">> => ~active[b]
        /\ hraised[b] = "on_activate" => active[b]
        /\ hraised[b] = "on_deactivate" => ~active[b]
        /\ lastOps[b] # <<>> =>
               LET o == lastOps[b][Len(lastOps[b])]
               IN /\ o.by = "hook"
                      => /\ nActivate[b] = o.acts
                         /\ nDeactivate[b] = o.deacts
                         /\ o.wasActive = (o.op = "activate")
                         /\ active[b] = o.wasActive
                  /\ (hraised[b] = "on_activate" /\ o.op = "activate")
                      => /\ hstack[b] = <<>>
                         /\ nActivate[b] = o.acts + (IF o.wasActive THEN 0 ELSE 1)
                         /\ Len(lastOps[b]) = 2 /\ lastOps[b][1].op = "activate"
                                => (o.wasActive /\ nActivate[b] = lastOps[b][1].acts
                                       + (IF lastOps[b][1].wasActive THEN 0 ELSE 1))

\* a hook called its own method again, and, apart from that, on_activate
\* raised and activate() was called once more
C17_Witness ==
    \E b, c \in Behaviors :
        /\ hraised[b] = "on_activate" /\ active[b]
        /\ Len(lastOps[b]) = 2
        /\ lastOps[b][1].op = "activate" /\ lastOps[b][1].by = "hook"
        /\ lastOps[b][2].op = "activate" /\ lastOps[b][2].by = "user"
        /\ lastOps[b][2].wasActive /\ nActivate[b] = 1
        /\ hstack[c] = <<"on_deactivate">>
        /\ lastOps[c][Len(lastOps[c])].by = "hook"

\* C18 (SpecWait): the part recorded by a wait is written once, by the first
\* matching touch: until the waiting thread reads it, it is the first part
\* the internal callback accepted.
C18_FirstMatchKept ==
    \A t \in Threads :
        (touch_event[t] /\ wpc[t] # "done") => touched_part[t] = wfirst[t]

\* C19 (SpecWait): whatever the body_part argument, every touch that passes
\* the subscription filter of a wait also signals the wait.
C19_SameFilter ==
    \A t \in Threads : wpassed[t] => touch_event[t]

\* C12 (SpecWaitFair): a wait blocked on a thread of its own is released
\* after a batch with a truthy update matching its filter is delivered; a
\* wait blocked on the event-delivery thread stays blocked, its Event unset,
\* and no batch reaches any callback meanwhile.
C12_Released ==
    /\ \A t \in Threads :
           (wpc[t] = "waiting" /\ wseen[t]) ~> (wpc[t] \in {"woken", "done"})
    /\ [](\A t \in Threads :
              eblocked = t => /\ wpc[t] = "waiting"
                              /\ ~touch_event[t]
                              /\ ~wpassed[t])
    /\ [][eblocked # None => UNCHANGED <<touched_part, touch_event, wseen>>]_vars

\* one wait was released by a matching batch while it waited on its own
\* thread, and another now blocks the event-delivery thread
C12_Witness ==
    \E t, u \in Threads :
        /\ wpc[t] \in {"woken", "done"} /\ wseen[t] /\ eblocked = u
        /\ wpc[u] = "waiting" /\ subs[wsub[u]].body_part = None

\* C13 (SpecRace): two threads that both find a name uncached both fetch it
\* and the later store wins; yet once no call for the name is in progress
\* the cache holds one of the fetched handles, and a call that begins then
\* does not fetch and returns the handle the cache holds from then on.
C13_RaceSettles ==
    /\ \A n \in Names :
           /\ asked[n] <= Cardinality(Threads)
           /\ (InProgress(n) = {} /\ fetched[n] > 0)
                  => services[n] \in {Handle(n, k) : k \in 1..fetched[n]}
    /\ \A t \in Threads :
           /\ (ulater[t] /\ upc[t] # "idle")
                  => /\ upc[t] = "return"
                     /\ ulocal[t] = services[uname[t]]
           /\ uheld[t].later
                  => /\ uheld[t].ret # NoService
                     /\ uheld[t].ret = services[uheld[t].name]

\* both threads fetched the same name and hold different handles, and a
\* call begun after both had returned is about to return the cached one
C13_Witness ==
    \E t, u \in Threads, n \in Names :
        /\ t # u /\ asked[n] = 2 /\ fetched[n] = 2
        /\ uheld[t].name = n /\ uheld[u].name = n
        /\ ~uheld[t].later /\ ~uheld[u].later
        /\ uheld[t].ret # uheld[u].ret
        /\ services[n] = uheld[u].ret
        /\ upc[t] = "return" /\ uname[t] = n /\ ulater[t]
        /\ ulocal[t] = uheld[u].ret /\ upc[u] = "idle"

\* what the filter f lets through of a batch: with a part name the truthy
\* updates of that part, without one every truthy update
ExpectedCalls(batch, f) ==
    LET keep(u) == u[2] /\ (f \in Parts => u[1] = f)
        sel == SelectSeq(batch, keep)
    IN [j \in 1..Len(sel) |-> sel[j][1]]

\* C16 (SpecMulti): each on_body_touched call appends one handle and one
\* connection and leaves the earlier ones as they were; every connection
\* made so far hears every delivered batch and is filtered by its own
\* body_part alone.
C16_OneMoreEach ==
    /\ [](/\ Len(touch_subscribers) = Len(subs)
          /\ \A i \in 1..Len(subs) : touch_subscribers[i] = i
          /\ \A i \in 1..Len(subs) :
                 lastCalls[i].heard
                     => lastCalls[i].calls
                            = ExpectedCalls(lastBatch, subs[i].body_part))
    /\ [][/\ Len(subs') >= Len(subs)
          /\ SubSeq(subs', 1, Len(subs)) = subs
          /\ SubSeq(touch_subscribers', 1, Len(subs)) = touch_subscribers
          /\ subs' # subs =>
                 /\ Len(subs') = Len(subs) + 1
                 /\ Len(touch_subscribers') = Len(touch_subscribers) + 1
          /\ (epc = "idle" /\ epc' = "delivered") =>
                 \A i \in 1..Len(subs) : lastCalls'[i].heard]_vars

\* two callbacks with different filters heard the same batch, each its own
\* selection of it
C16_Witness ==
    /\ Len(subs) = 2 /\ epc = "delivered"
    /\ subs[1].body_part = None /\ subs[2].body_part = "LArm"
    /\ lastBatch = <<<<HEAD_FRONT_TOUCH, TRUE>>, <<"LArm", TRUE>>>>
    /\ lastCalls[1].heard /\ lastCalls[1].calls = <<HEAD_FRONT_TOUCH, "LArm">>
    /\ lastCalls[2].heard /\ lastCalls[2].calls = <<"LArm">>
    /\ touch_subscribers = <<1, 2>>

====
